---------------------------- MODULE Spec2Model ----------------------------
(***************************************************************************)
(* A model of zk-mdl-kit: the issuer's OID4VCI session endpoints           *)
(* (/authorize, /token, /credential and the expiry timer), the SD-JWT      *)
(* issue/verify functions, the verifier's verifyPresentation pipeline and  *)
(* the trust module (VICAL cache and issuer pinning).                      *)
(*                                                                         *)
(* Each subsystem has its own specification over the shared variables:     *)
(*   SpecIssuance, SpecSdJwt, SpecVerify (SpecVerifyLive with fairness),   *)
(*   SpecTranscript, SpecTrust (SpecTrustConcurrent with two callers),     *)
(*   SpecAllowList.                                                        *)
(***************************************************************************)
EXTENDS Integers, Sequences, FiniteSets, TLC

VARIABLES
  now,          \* wall clock, in seconds (Date.now() / 1000)
  \* ---- issuer server (src/unnamed/part_003) ----
  sessions,     \* the Map `sessions`: key (UUID) -> session object (by identity)
  sessionObjs,  \* the heap of session objects, named by the authCode they were built with
  timers,       \* pending setTimeout callbacks: [code, due]
  timersFired,  \* authorization codes whose setTimeout callback has run
  uuids,        \* number of crypto.randomUUID() values handed out as codes/tokens
  origin,       \* for each key ever handed out: the inputs of the authorize call it stems
                \* from and, for an access token, the code it was returned for
  issReq,       \* the request being answered
  issRes        \* the response to it

issVars == <<sessions, sessionObjs, timers, timersFired, uuids, origin, issReq, issRes>>

VARIABLES
  \* ---- SD-JWT issue / present / verify (src/issuer/issueCredential.js) ----
  sdPhase,      \* "idle", "issued", "presented", "verified"
  sdIssued,     \* the claims given to issueCredential and what it returned
  sdPresented,  \* the credential string the holder presents
  sdCall,       \* the arguments of the verifyCredential call
  sdResult      \* what verifyCredential returned

sdVars == <<sdPhase, sdIssued, sdPresented, sdCall, sdResult>>

VARIABLES
  \* ---- verifier (src/unnamed/part_002) ----
  vpc,          \* where verifyPresentation is: "idle", "awaiting" (the fetch), "done"
  vCalls,       \* verifyPresentation calls started
  vUuids,       \* crypto.randomUUID() values the verifier has drawn
  vEnvelope,    \* the decrypted envelope of the call
  vFetches,     \* requests the call has sent to Longfellow
  vRequest,     \* the body of the request in flight
  vLongfellow,  \* longfellowResult
  vResult,      \* what verifyPresentation returned
  vSessionIds,  \* the sessionId values returned so far with valid: true
  \* ---- session transcripts (src/verifier/sessionTranscript.js) ----
  stValue,      \* a value held as session transcript
  stKind,       \* how it came about: "none", "built", or the way it was altered
  stChecked,    \* validateSessionTranscript has been called on it
  stValid,      \* what validateSessionTranscript returned
  stArgs        \* the arguments buildSessionTranscript was called with

stVars == <<stValue, stKind, stChecked, stValid, stArgs>>

verVars == <<vpc, vCalls, vUuids, vEnvelope, vFetches, vRequest, vLongfellow, vResult,
             vSessionIds, stVars>>

VARIABLES
  \* ---- trust module (src/unnamed/part_004, src/issuer/keys.js lines 65-201) ----
  cacheFile,    \* the file vical.json in the cache directory
  accepted,     \* ACCEPTED_JURISDICTIONS
  tpc,          \* per caller: "idle", "fetch" (fetchVical entered), "remote" (awaiting
                \* the VICAL endpoint), "done"
  tCall,        \* per caller: the call it made
  tCached,      \* per caller: cachedData, what fetchVical read from the cache
  tRemote,      \* per caller: how the VICAL endpoint answered
  tRet,         \* per caller: what the call returned
  tAccepted,    \* per caller: ACCEPTED_JURISDICTIONS as its verifyIssuer read it
  alQuery,      \* the last call of isJurisdictionAccepted and what it returned
  tBefore       \* per caller: the cache file as it was when its call began

trustVars == <<cacheFile, accepted, tpc, tCall, tCached, tRemote, tRet, tAccepted, alQuery, tBefore>>

vars == <<now, issVars, sdVars, verVars, trustVars>>

-----------------------------------------------------------------------------
(* Bounds of the model *)

MaxUuid == 3          \* UUIDs the issuer hands out as codes and tokens
MaxIssTicks == 2      \* clock steps of the issuance specification
MaxClaims == 2        \* claims given to issueCredential
MaxSdTicks == 3       \* clock steps of the SD-JWT specification
MaxVerifies == 2      \* calls of verifyPresentation
MaxTrustTicks == 3    \* clock steps of the trust specification

(* Program constants *)

SESSION_TTL == 600    \* setTimeout(..., 10 * 60 * 1000), in seconds
DERIVED_VC_TTL == 86400
CACHE_TTL == 86400    \* 24 * 60 * 60 * 1000 ms, in seconds

-----------------------------------------------------------------------------
(* Values *)

NoId == 0                       \* no UUID (an absent field, an unknown key)
Uuids == 1..MaxUuid             \* the UUIDs randomUUID() can return, all distinct

NoKey == [kid |-> "", x |-> ""]  \* holderPublicKey missing from the request body

NoHeader == [scheme |-> "", token |-> NoId]
NoProof == [present |-> FALSE, proof_type |-> ""]
JwtProof == [present |-> TRUE, proof_type |-> "jwt"]
LdpProof == [present |-> TRUE, proof_type |-> "ldp_vp"]
UntypedProof == [present |-> TRUE, proof_type |-> ""]   \* a proof object without proof_type
GrantTypes == {"authorization_code", "client_credentials"}

\* request bodies of /authorize: two complete ones, and one with either field missing
AuthorizeBodies ==
  { [verificationSessionId |-> "vs1", holderPublicKey |-> [kid |-> "holder-1", x |-> "A"]],
    [verificationSessionId |-> "vs2", holderPublicKey |-> [kid |-> "", x |-> "B"]],
    [verificationSessionId |-> "", holderPublicKey |-> [kid |-> "holder-1", x |-> "A"]],
    [verificationSessionId |-> "vs1", holderPublicKey |-> NoKey] }

\* request bodies of /credential
CredentialBodies ==
  { [format |-> "", proof |-> NoProof],
    [format |-> "vc+sd-jwt", proof |-> JwtProof],
    [format |-> "jwt_vc_json", proof |-> NoProof],
    [format |-> "", proof |-> LdpProof],
    [format |-> "vc+sd-jwt", proof |-> UntypedProof] }

-----------------------------------------------------------------------------
(* JavaScript values and strings.                                          *)
(* A JSON value is kept as its type and its JSON text.  A string that is   *)
(* split or joined on "~" is a sequence of atoms: the delimiter, or one    *)
(* "~"-free token (a compact JWT, a base64url text).                       *)

JTrue == [type |-> "boolean", text |-> "true"]
JFalse == [type |-> "boolean", text |-> "false"]
JStr(s) == [type |-> "string", text |-> s]
JNum(s) == [type |-> "number", text |-> s]
JUndefined == [type |-> "undefined", text |-> ""]

Tilde == [t |-> "~"]

\* Array.prototype.join('~') over tokens
RECURSIVE JoinTilde(_)
JoinTilde(xs) ==
  IF Len(xs) = 0 THEN <<>>
  ELSE IF Len(xs) = 1 THEN <<xs[1]>>
  ELSE <<xs[1], Tilde>> \o JoinTilde(Tail(xs))

\* String.prototype.split('~'): the segments between delimiters, empty ones kept
RECURSIVE SplitTildeFrom(_, _)
SplitTildeFrom(str, cur) ==
  IF Len(str) = 0 THEN <<cur>>
  ELSE IF str[1] = Tilde THEN <<cur>> \o SplitTildeFrom(Tail(str), <<>>)
  ELSE SplitTildeFrom(Tail(str), Append(cur, str[1]))

SplitTilde(str) == SplitTildeFrom(str, <<>>)

\* (mutant) slice(1): the segment after the trailing delimiter is kept
Slice1Minus1_KeepLast(xs) ==
  IF Len(xs) <= 1 THEN <<>> ELSE SubSeq(xs, 2, Len(xs))

\* Array.prototype.slice(1, -1)
Slice1Minus1(xs) ==
  IF Len(xs) <= 2 THEN <<>> ELSE SubSeq(xs, 2, Len(xs) - 1)

-----------------------------------------------------------------------------
(* SD-JWT issuance and verification (src/issuer/issueCredential.js)        *)

IssuerKey == "issuer-key-1"     \* the issuer key pair getIssuerKeys() returns
OtherKey == "other-key"         \* some other key pair
IssuerUrl == "http://localhost:3001"
Vct == "https://example.com/derived-mdl-vc"

\* Buffer.from(JSON.stringify([salt, key, value])).toString('base64url')
EncodeDisclosure(salt, key, value) ==
  [t |-> "b64url-json", salt |-> salt, key |-> key, value |-> value]

\* JSON.parse(Buffer.from(segment, 'base64url').toString('utf-8')) destructured as
\* [salt, key, value]; the empty string and non-disclosure text make it throw
CanDecodeDisclosure(segment) ==
  Len(segment) = 1 /\ segment[1].t = "b64url-json"

\* crypto.createHash('sha256').update(text).digest('base64url'), collision free
Sha256(token) == [t |-> "sha256", of |-> token]

\* (mutant) createDisclosures putting each digest at the front of the list
CreateDisclosures_DigestsUnshifted(claims, salts) ==
  LET disclosures == [i \in 1..Len(claims) |->
                        EncodeDisclosure(salts[i], claims[i].k, claims[i].v)]
  IN  [disclosures |-> disclosures,
       disclosureDigests |->
         [i \in 1..Len(claims) |-> Sha256(disclosures[Len(claims) + 1 - i])]]

\* createDisclosures: one disclosure and one digest per entry of claims, in order
CreateDisclosures(claims, salts) ==
  LET disclosures == [i \in 1..Len(claims) |->
                        EncodeDisclosure(salts[i], claims[i].k, claims[i].v)]
  IN  [disclosures |-> disclosures,
       disclosureDigests |-> [i \in 1..Len(claims) |-> Sha256(disclosures[i])]]

\* sha256(JSON.stringify(jwk)).hex.substring(0, 16)
Sha256Hex16(jwk) == IF jwk.x = "A" THEN "hex16-A" ELSE "hex16-B"

\* new SignJWT(payload).setProtectedHeader(...).sign(key)
SignJwt(payload, key) ==
  [t |-> "jwt", alg |-> "ES256", typ |-> "vc+sd-jwt", kid |-> IssuerKey,
   payload |-> payload, signedBy |-> key]

\* issueCredential({holderPublicKey, verificationSessionId, claims}) at time t
IssueCredential(holderPublicKey, verificationSessionId, claims, salts, t) ==
  LET d == CreateDisclosures(claims, salts)
      payload == [iss |-> IssuerUrl,
                  sub |-> IF holderPublicKey.kid # "" THEN holderPublicKey.kid
                          ELSE Sha256Hex16(holderPublicKey),
                  iat |-> t,
                  exp |-> t + DERIVED_VC_TTL,
                  vct |-> Vct,
                  sd |-> d.disclosureDigests,
                  cnf |-> holderPublicKey,
                  sd_alg |-> "sha-256",
                  derivedFrom |-> verificationSessionId]
      jwt == SignJwt(payload, IssuerKey)
  IN  [sdJwt |-> <<jwt, Tilde>> \o JoinTilde(d.disclosures) \o <<Tilde>>,
       disclosures |-> d.disclosures,
       format |-> "vc+sd-jwt"]

\* (mutant) jwtVerify without the check of the signature against the key
JwtVerifies_AnyKey(segment, key, t) ==
  /\ Len(segment) = 1
  /\ segment[1].t = "jwt"
  /\ segment[1].alg = "ES256"
  /\ ~(segment[1].payload.exp <= t)

\* jose's jwtVerify(jwt, key, {algorithms: ['ES256']}): the compact token must
\* parse, be signed by the key, and its exp must lie after the current time
JwtVerifies(segment, key, t) ==
  /\ Len(segment) = 1
  /\ segment[1].t = "jwt"
  /\ segment[1].alg = "ES256"
  /\ segment[1].signedBy = key
  /\ ~(segment[1].payload.exp <= t)

\* the message of the error jwtVerify throws when it rejects the token
JwtVerifyError(segment, key, t) ==
  IF Len(segment) # 1 \/ segment[1].t # "jwt" THEN "Invalid Compact JWS"
  ELSE IF segment[1].alg # "ES256" \/ segment[1].signedBy # key
  THEN "signature verification failed"
  ELSE "\"exp\" claim timestamp check failed"

\* claims[key] = value on an object kept as its entries in insertion order
SetClaim(claims, key, value) ==
  IF \E i \in 1..Len(claims) : claims[i].k = key
  THEN [i \in 1..Len(claims) |->
          IF claims[i].k = key THEN [k |-> key, v |-> value] ELSE claims[i]]
  ELSE Append(claims, [k |-> key, v |-> value])

\* (mutant) the loop without the test of the digest
RECURSIVE RevealClaims_NoDigestCheck(_, _, _)
RevealClaims_NoDigestCheck(disclosures, sd, claims) ==
  IF Len(disclosures) = 0 THEN claims
  ELSE LET d == disclosures[1][1]
       IN  RevealClaims_NoDigestCheck(Tail(disclosures), sd, SetClaim(claims, d.key, d.value))

\* the loop over disclosures of verifyCredential
RECURSIVE RevealClaims(_, _, _)
RevealClaims(disclosures, sd, claims) ==
  IF Len(disclosures) = 0 THEN claims
  ELSE LET d == disclosures[1][1]
       IN  RevealClaims(Tail(disclosures), sd,
             IF \E i \in 1..Len(sd) : sd[i] = Sha256(d)
             THEN SetClaim(claims, d.key, d.value)
             ELSE claims)

InvalidCredential(msg) ==
  [valid |-> FALSE, error |-> msg, claims |-> <<>>, holder |-> NoKey,
   issuer |-> "", issuedAt |-> 0, expiresAt |-> 0]

\* (mutant) verifyCredential rejecting a credential whose disclosures are not
\* one for each digest of the envelope
VerifyCredential_StrictDigests(sdJwt, issuerPublicKey, t) ==
  LET parts == SplitTilde(sdJwt)
      jwt == parts[1]
      disclosures == Slice1Minus1(parts)
  IN  IF ~JwtVerifies(jwt, issuerPublicKey, t)
      THEN InvalidCredential(JwtVerifyError(jwt, issuerPublicKey, t))
      ELSE LET payload == jwt[1].payload
           IN  IF payload.exp < t
               THEN InvalidCredential("Credential expired")
               ELSE IF \E i \in 1..Len(disclosures) : ~CanDecodeDisclosure(disclosures[i])
               THEN InvalidCredential("disclosure parse error")
               ELSE IF {Sha256(disclosures[i][1]) : i \in 1..Len(disclosures)}
                         # {payload.sd[i] : i \in 1..Len(payload.sd)}
               THEN InvalidCredential("digest mismatch")
               ELSE [valid |-> TRUE, error |-> "",
                     claims |-> RevealClaims(disclosures, payload.sd, <<>>),
                     holder |-> payload.cnf, issuer |-> payload.iss,
                     issuedAt |-> payload.iat, expiresAt |-> payload.exp]

\* verifyCredential(sdJwt, issuerPublicKey) at time t
VerifyCredential(sdJwt, issuerPublicKey, t) ==
  LET parts == SplitTilde(sdJwt)
      jwt == parts[1]
      disclosures == Slice1Minus1(parts)
  IN  IF ~JwtVerifies(jwt, issuerPublicKey, t)
      THEN InvalidCredential(JwtVerifyError(jwt, issuerPublicKey, t))
      ELSE LET payload == jwt[1].payload
           IN  IF payload.exp < t
               THEN InvalidCredential("Credential expired")
               ELSE IF \E i \in 1..Len(disclosures) : ~CanDecodeDisclosure(disclosures[i])
               THEN InvalidCredential("disclosure parse error")
               ELSE [valid |-> TRUE, error |-> "",
                     claims |-> RevealClaims(disclosures, payload.sd, <<>>),
                     holder |-> payload.cnf, issuer |-> payload.iss,
                     issuedAt |-> payload.iat, expiresAt |-> payload.exp]

-----------------------------------------------------------------------------
(* The issuer server (src/unnamed/part_003)                                *)

Salts == {"salt-1", "salt-2"}   \* values of crypto.randomBytes(16)

NoReq == [op |-> "", verificationSessionId |-> "", holderPublicKey |-> NoKey,
          grant_type |-> "", code |-> NoId, authorization |-> NoHeader,
          format |-> "", proof |-> NoProof]

NoRes == [status |-> 0, error |-> "", authorization_code |-> NoId,
          access_token |-> NoId, credential |-> <<>>]

ErrorRes(status, error) == [NoRes EXCEPT !.status = status, !.error = error]

\* (mutant) /credential also asks for the issuer's jurisdiction
CredentialClaims_WithJurisdiction ==
  << [k |-> "over21", v |-> JTrue], [k |-> "notExpired", v |-> JTrue],
     [k |-> "issuerJurisdiction", v |-> JStr("CA")] >>

\* the claims /credential always asks for
CredentialClaims == << [k |-> "over21", v |-> JTrue], [k |-> "notExpired", v |-> JTrue] >>

\* Map.prototype.get
SessionOf(key) == IF key \in DOMAIN sessions THEN sessionObjs[sessions[key]] ELSE <<>>
HasSession(key) == key \in DOMAIN sessions

Put(map, key, value) == [k \in DOMAIN map \cup {key} |-> IF k = key THEN value ELSE map[k]]

\* (mutant) /authorize tests the verificationSessionId only
MissingField_SessionIdOnly(verificationSessionId, holderPublicKey) ==
  verificationSessionId = ""

\* !verificationSessionId || !holderPublicKey
MissingField(verificationSessionId, holderPublicKey) ==
  verificationSessionId = "" \/ holderPublicKey = NoKey

\* POST /authorize
Authorize(verificationSessionId, holderPublicKey) ==
  /\ issReq' = [NoReq EXCEPT !.op = "authorize",
                             !.verificationSessionId = verificationSessionId,
                             !.holderPublicKey = holderPublicKey]
  /\ IF MissingField(verificationSessionId, holderPublicKey)
     THEN /\ issRes' = ErrorRes(400, "invalid_request")
          /\ UNCHANGED <<sessions, sessionObjs, timers, uuids, origin>>
     ELSE /\ uuids < MaxUuid
          /\ LET authCode == uuids + 1
                 sessionData == [authCode |-> authCode,
                                 holderPublicKey |-> holderPublicKey,
                                 verificationSessionId |-> verificationSessionId,
                                 timestamp |-> now,
                                 accessToken |-> NoId]
             IN  /\ uuids' = authCode
                 /\ sessionObjs' = Put(sessionObjs, authCode, sessionData)
                 /\ sessions' = Put(sessions, authCode, authCode)
                 /\ timers' = timers \cup {[code |-> authCode, due |-> now + SESSION_TTL]}
                 /\ origin' = Put(origin, authCode,
                                  [verificationSessionId |-> verificationSessionId,
                                   holderPublicKey |-> holderPublicKey,
                                   exchangedFor |-> NoId])
                 /\ issRes' = [NoRes EXCEPT !.status = 200, !.authorization_code = authCode]
  /\ UNCHANGED <<now, timersFired, sdVars, verVars, trustVars>>

\* the session object /token stores under the new access token
TokenSession(code) == sessions[code]

\* (mutant) /token accepts every grant type
UnsupportedGrantType_None(grant_type) == FALSE

\* grant_type !== 'authorization_code'
UnsupportedGrantType(grant_type) == grant_type # "authorization_code"

\* POST /token
Token(grant_type, code) ==
  /\ issReq' = [NoReq EXCEPT !.op = "token", !.grant_type = grant_type, !.code = code]
  /\ IF UnsupportedGrantType(grant_type)
     THEN /\ issRes' = ErrorRes(400, "unsupported_grant_type")
          /\ UNCHANGED <<sessions, sessionObjs, uuids, origin>>
     ELSE IF ~HasSession(code)
     THEN /\ issRes' = ErrorRes(400, "invalid_grant")
          /\ UNCHANGED <<sessions, sessionObjs, uuids, origin>>
     ELSE /\ uuids < MaxUuid
          /\ LET accessToken == uuids + 1
                 obj == TokenSession(code)
             IN  /\ uuids' = accessToken
                 /\ sessionObjs' = [sessionObjs EXCEPT ![obj].accessToken = accessToken]
                 /\ sessions' = Put(sessions, accessToken, obj)
                 /\ origin' = Put(origin, accessToken, [origin[code] EXCEPT !.exchangedFor = code])
                 /\ issRes' = [NoRes EXCEPT !.status = 200, !.access_token = accessToken]
  /\ UNCHANGED <<now, timers, timersFired, sdVars, verVars, trustVars>>

\* (mutant) /credential issues for the session created last, whatever the token
CredentialSession_Latest(accessToken) ==
  sessionObjs[CHOOSE c \in DOMAIN sessionObjs : \A d \in DOMAIN sessionObjs : d <= c]

\* the session /credential issues for: sessions.get(accessToken)
CredentialSession(accessToken) == SessionOf(accessToken)

\* format && format !== 'vc+sd-jwt'
UnsupportedFormat(format) == format # "" /\ format # "vc+sd-jwt"

\* (mutant) /credential demands a proof
InvalidProof_AbsentToo(proof) == proof.proof_type # "jwt"

\* proof && proof.proof_type !== 'jwt'
InvalidProof(proof) == proof.present /\ proof.proof_type # "jwt"

\* (mutant) /credential consumes the access token
SessionsAfterCredential_Consumed(authorization) ==
  IF authorization # NoHeader /\ authorization.scheme = "Bearer"
  THEN [k \in DOMAIN sessions \ {authorization.token} |-> sessions[k]]
  ELSE sessions

\* the session table when /credential has answered: the handler calls
\* sessions.get only
SessionsAfterCredential(authorization) == sessions

\* POST /credential
Credential(authorization, format, proof) ==
  /\ issReq' = [NoReq EXCEPT !.op = "credential", !.authorization = authorization,
                             !.format = format, !.proof = proof]
  /\ IF authorization = NoHeader \/ authorization.scheme # "Bearer"
     THEN issRes' = ErrorRes(401, "invalid_token")
     ELSE IF ~HasSession(authorization.token)
     THEN issRes' = ErrorRes(401, "invalid_token")
     ELSE IF UnsupportedFormat(format)
     THEN issRes' = ErrorRes(400, "unsupported_credential_format")
     ELSE IF InvalidProof(proof)
     THEN issRes' = ErrorRes(400, "invalid_proof")
     ELSE \E salts \in [1..Len(CredentialClaims) -> Salts] :
            LET session == CredentialSession(authorization.token)
                credential == IssueCredential(session.holderPublicKey,
                                              session.verificationSessionId,
                                              CredentialClaims, salts, now)
            IN  issRes' = [NoRes EXCEPT !.status = 200, !.credential = credential.sdJwt]
  /\ sessions' = SessionsAfterCredential(authorization)
  /\ UNCHANGED <<now, sessionObjs, timers, timersFired, uuids, origin, sdVars, verVars, trustVars>>

\* the keys the setTimeout callback of /authorize deletes
ExpiredKeys(code) == {code}

\* the callback of setTimeout(() => sessions.delete(authCode), 10 * 60 * 1000)
Expire(code) ==
  /\ \E tm \in timers : tm.code = code /\ now >= tm.due
  /\ sessions' = [k \in DOMAIN sessions \ ExpiredKeys(code) |-> sessions[k]]
  /\ timers' = {tm \in timers : tm.code # code}
  /\ timersFired' = timersFired \cup {code}
  /\ UNCHANGED <<now, sessionObjs, uuids, origin, issReq, issRes, sdVars, verVars, trustVars>>

\* time passes
IssTick ==
  /\ now < MaxIssTicks * SESSION_TTL
  /\ now' = now + SESSION_TTL
  /\ UNCHANGED <<issVars, sdVars, verVars, trustVars>>

\* what a client can send as Authorization header
Headers ==
  {NoHeader, [scheme |-> "Basic", token |-> 1]} \cup {[scheme |-> "Bearer", token |-> id] : id \in Uuids}

-----------------------------------------------------------------------------
(* Issuing, presenting and verifying one SD-JWT VC *)

ClaimNames == {"over21", "notExpired", "issuerJurisdiction"}
ClaimValues == {JTrue, JStr("CA")}

\* the claims objects: at most MaxClaims entries with distinct names, in insertion order
ClaimSets ==
  UNION { { c \in [1..n -> [k : ClaimNames, v : ClaimValues]] :
              \A i, j \in 1..n : i # j => c[i].k # c[j].k } : n \in 0..MaxClaims }

NoIssued == [claims |-> <<>>, sdJwt |-> <<>>, disclosures |-> <<>>]
NoCall == [sdJwt |-> <<>>, issuerPublicKey |-> "", at |-> 0]

\* the entries of a claims object
Entries(claims) == {claims[i] : i \in 1..Len(claims)}

\* issueCredential is called
SdIssue(claims, salts, holder) ==
  /\ sdPhase = "idle"
  /\ LET credential == IssueCredential(holder.holderPublicKey, holder.verificationSessionId,
                                       claims, salts, now)
     IN  sdIssued' = [claims |-> claims, sdJwt |-> credential.sdJwt,
                      disclosures |-> credential.disclosures]
  /\ sdPhase' = "issued"
  /\ UNCHANGED <<now, issVars, verVars, trustVars, sdPresented, sdCall, sdResult>>

\* the holder's copy of a credential string without the disclosure segments in omit
RECURSIVE HolderOmit(_, _)
HolderOmit(str, omit) ==
  IF Len(str) = 0 THEN <<>>
  ELSE IF str[1] \in omit THEN HolderOmit(Tail(Tail(str)), omit)
  ELSE <<str[1]>> \o HolderOmit(Tail(str), omit)

\* the holder presents the credential string as issued
SdPresentAll ==
  /\ sdPhase = "issued"
  /\ sdPresented' = sdIssued.sdJwt
  /\ sdPhase' = "presented"
  /\ UNCHANGED <<now, issVars, verVars, trustVars, sdIssued, sdCall, sdResult>>

\* the holder presents the credential string with some disclosures left out
SdPresentSome(omit) ==
  /\ sdPhase = "issued"
  /\ omit # {}
  /\ omit \subseteq {sdIssued.disclosures[i] : i \in 1..Len(sdIssued.disclosures)}
  /\ sdPresented' = HolderOmit(sdIssued.sdJwt, omit)
  /\ sdPhase' = "presented"
  /\ UNCHANGED <<now, issVars, verVars, trustVars, sdIssued, sdCall, sdResult>>

\* disclosures that no issueCredential call produced
ForeignDisclosures ==
  { EncodeDisclosure("salt-9", "over21", JFalse), EncodeDisclosure("salt-9", "admin", JTrue) }

\* the holder presents the envelope with the issued disclosures and one more
\* that was not issued with it
SdPresentExtra(extra) ==
  /\ sdPhase = "issued"
  /\ sdPresented' = <<sdIssued.sdJwt[1], Tilde>>
                      \o JoinTilde(Append(sdIssued.disclosures, extra)) \o <<Tilde>>
  /\ sdPhase' = "presented"
  /\ UNCHANGED <<now, issVars, verVars, trustVars, sdIssued, sdCall, sdResult>>

\* verifyCredential is called on what the holder presents
SdVerify(issuerPublicKey) ==
  /\ sdPhase = "presented"
  /\ sdCall' = [sdJwt |-> sdPresented, issuerPublicKey |-> issuerPublicKey, at |-> now]
  /\ sdResult' = VerifyCredential(sdPresented, issuerPublicKey, now)
  /\ sdPhase' = "verified"
  /\ UNCHANGED <<now, issVars, verVars, trustVars, sdIssued, sdPresented>>

\* time passes
SdTick ==
  /\ sdPhase # "verified"
  /\ now < MaxSdTicks * (DERIVED_VC_TTL \div 2)
  /\ now' = now + DERIVED_VC_TTL \div 2
  /\ UNCHANGED <<issVars, sdVars, verVars, trustVars>>

CompleteBodies == {b \in AuthorizeBodies : b.verificationSessionId # "" /\ b.holderPublicKey # NoKey}

SdNext ==
  \/ \E c \in ClaimSets, h \in CompleteBodies :
       \E salts \in [1..Len(c) -> Salts] : SdIssue(c, salts, h)
  \/ SdPresentAll
  \/ \E omit \in SUBSET {sdIssued.disclosures[i] : i \in 1..Len(sdIssued.disclosures)} :
       SdPresentSome(omit)
  \/ \E extra \in ForeignDisclosures : SdPresentExtra(extra)
  \/ \E k \in {IssuerKey, OtherKey} : SdVerify(k)
  \/ SdTick

-----------------------------------------------------------------------------
(* The verifier: verifyPresentation (src/unnamed/part_002) and             *)
(* buildSessionTranscript (src/verifier/sessionTranscript.js)              *)

JNull == [t |-> "null"]

\* hashValue: null for a falsy value, else the base64 SHA-256 of the text
HashValue(value) ==
  IF value = "" THEN JNull ELSE [t |-> "sha256-base64", of |-> value]

\* (mutant) a transcript with the response_uri slot as a fourth top-level element
BuildSessionTranscript_FourItems(nonce, audience, envelope) ==
  << JNull, JNull,
     [t |-> "array",
      items |-> << [t |-> "string", of |-> "OpenID4VPDCAPIHandover"],
                   HashValue(audience), HashValue(nonce) >>],
     JNull >>

\* buildSessionTranscript(nonce, audience, envelope = {}): the third argument
\* is not read
BuildSessionTranscript(nonce, audience, envelope) ==
  << JNull, JNull,
     [t |-> "array",
      items |-> << [t |-> "string", of |-> "OpenID4VPDCAPIHandover"],
                   HashValue(audience), HashValue(nonce), JNull >>] >>

AgeOver21 == "org.iso.18013.5.1.age_over_21"
AgeOver18 == "org.iso.18013.5.1.age_over_18"
NotExpired == "org.iso.18013.5.1.not_expired"

\* JavaScript truthiness of a value that may be absent
Truthy(obj, key) ==
  /\ key \in DOMAIN obj
  /\ obj[key] \notin {JFalse, JUndefined, JStr(""), JNum("0")}

\* (mutant) extractPredicates without the typeof value === 'boolean' filter
ExtractPredicates_NoFilter(longfellowResult) ==
  LET remote == longfellowResult.predicates
      withIssuer == IF longfellowResult.issuer # ""
                    THEN Put(remote, "issuerJurisdiction", JStr(longfellowResult.issuer))
                    ELSE remote
  IN  Put(withIssuer, "notExpired",
          IF NotExpired \in DOMAIN remote /\ remote[NotExpired] = JFalse
          THEN JFalse ELSE JTrue)

\* (mutant) extractPredicates with notExpired taken as the truthiness of the
\* remote not_expired predicate
ExtractPredicates_TruthyNotExpired(longfellowResult) ==
  LET remote == longfellowResult.predicates
      booleans == [k \in {k \in DOMAIN remote : remote[k].type = "boolean"} |-> remote[k]]
      with21 == IF Truthy(remote, AgeOver21) THEN Put(booleans, "over21", JTrue) ELSE booleans
      with18 == IF Truthy(remote, AgeOver18) THEN Put(with21, "over18", JTrue) ELSE with21
      withIssuer == IF longfellowResult.issuer # ""
                    THEN Put(with18, "issuerJurisdiction", JStr(longfellowResult.issuer))
                    ELSE with18
  IN  Put(withIssuer, "notExpired", IF Truthy(remote, NotExpired) THEN JTrue ELSE JFalse)

\* extractPredicates(longfellowResult)
ExtractPredicates(longfellowResult) ==
  LET remote == longfellowResult.predicates
      booleans == [k \in {k \in DOMAIN remote : remote[k].type = "boolean"} |-> remote[k]]
      with21 == IF Truthy(remote, AgeOver21) THEN Put(booleans, "over21", JTrue) ELSE booleans
      with18 == IF Truthy(remote, AgeOver18) THEN Put(with21, "over18", JTrue) ELSE with21
      withIssuer == IF longfellowResult.issuer # ""
                    THEN Put(with18, "issuerJurisdiction", JStr(longfellowResult.issuer))
                    ELSE with18
  IN  Put(withIssuer, "notExpired",
          IF NotExpired \in DOMAIN remote /\ remote[NotExpired] = JFalse
          THEN JFalse ELSE JTrue)

NoEnvelope == [decrypts |-> FALSE, vp_token |-> "", nonce |-> "", aud |-> ""]
NoRequest == [proof |-> "", sessionTranscript |-> <<>>]
NoLongfellow == [valid |-> FALSE, predicates |-> <<>>, issuer |-> "", error |-> "", mock |-> FALSE]
NoResult == [valid |-> FALSE, predicates |-> <<>>, sessionId |-> NoId, error |-> "", mock |-> FALSE]

\* { valid: false, error }
Failed(error) == [NoResult EXCEPT !.error = error]

\* { valid: true, predicates, sessionId }: the object verifyPresentation returns
\* on success has these three fields and no other
Succeeded(longfellowResult, sessionId) ==
  [valid |-> TRUE, predicates |-> ExtractPredicates(longfellowResult),
   sessionId |-> sessionId, error |-> "", mock |-> FALSE]

\* mockLongfellowResponse(vpToken)
MockLongfellowResponse ==
  [valid |-> TRUE,
   predicates |-> Put(Put(<<>>, AgeOver21, JTrue), NotExpired, JTrue),
   issuer |-> "CA-DMV", error |-> "", mock |-> TRUE]

\* (mutant) the extraction yields a placeholder when vp_token is absent
VpTokenOf_Placeholder(envelope) ==
  CASE envelope.vp_token = "" -> "{}"
    [] envelope.vp_token = "{mdl}" -> "mdl-token"
    [] OTHER -> envelope.vp_token

\* envelope.vp_token?.mdl || envelope.vp_token || Object.values(envelope.vp_token ?? {})[0]
\* for a vp_token that is absent (""), a token text, or an object holding one
VpTokenOf(envelope) ==
  CASE envelope.vp_token = "" -> ""
    [] envelope.vp_token = "{mdl}" -> "mdl-token"
    [] envelope.vp_token = "{other}" -> "{other}"
    [] OTHER -> envelope.vp_token

\* the text of the verifier's n-th crypto.randomUUID(), as a client would send
\* it to /authorize as verificationSessionId
UuidText(n) ==
  CASE n = 1 -> "vs1" [] n = 2 -> "vs2" [] n = 3 -> "vs3" [] OTHER -> "vs4"

\* verifyPresentation(jwe) up to the fetch of verifyWithLongfellow
VerifyStart(envelope) ==
  /\ vpc = "idle"
  /\ vCalls < MaxVerifies
  /\ vCalls' = vCalls + 1
  /\ vEnvelope' = envelope
  /\ vLongfellow' = NoLongfellow
  /\ IF ~envelope.decrypts
     THEN /\ vResult' = Failed("decryption failed")
          /\ vpc' = "done"
          /\ UNCHANGED <<vUuids, vRequest>>
     ELSE IF VpTokenOf(envelope) = ""
     THEN /\ vResult' = Failed("No vp_token found in decrypted envelope")
          /\ vpc' = "done"
          /\ UNCHANGED <<vUuids, vRequest>>
     ELSE /\ vUuids' = IF envelope.nonce = "" THEN vUuids + 1 ELSE vUuids
          /\ vRequest' =
               [proof |-> VpTokenOf(envelope),
                sessionTranscript |->
                  BuildSessionTranscript(
                    IF envelope.nonce # "" THEN envelope.nonce ELSE "randomUUID",
                    IF envelope.aud # "" THEN envelope.aud ELSE "https://verifier.example.com",
                    envelope)]
          /\ vpc' = "awaiting"
          /\ UNCHANGED vResult
  /\ vFetches' = IF vpc' = "awaiting" THEN 1 ELSE 0
  /\ UNCHANGED <<now, issVars, sdVars, trustVars, vSessionIds, stVars>>

\* (mutant) a result counts as failed only when it carries an error
LongfellowFailed_ErrorOnly(longfellowResult) == longfellowResult.error # ""

\* !longfellowResult.valid
LongfellowFailed(longfellowResult) == ~longfellowResult.valid

\* the rest of verifyPresentation once verifyWithLongfellow has returned
VerifyFinish(longfellowResult) ==
  /\ vLongfellow' = longfellowResult
  /\ vpc' = "done"
  /\ IF LongfellowFailed(longfellowResult)
     THEN /\ vResult' = Failed(IF longfellowResult.error # "" THEN longfellowResult.error
                               ELSE "Longfellow verification failed")
          /\ UNCHANGED <<vUuids, vSessionIds>>
     ELSE /\ vResult' = Succeeded(longfellowResult, vUuids + 1)
          /\ vUuids' = vUuids + 1
          /\ vSessionIds' = vSessionIds \cup {vUuids + 1}
  /\ UNCHANGED <<now, issVars, sdVars, trustVars, vCalls, vEnvelope, vFetches, vRequest, stVars>>

\* Longfellow answers 2xx with a JSON body
LongfellowAnswers(result) ==
  /\ vpc = "awaiting"
  /\ VerifyFinish(result)

\* Longfellow answers with a non-2xx status
LongfellowRejects ==
  /\ vpc = "awaiting"
  /\ VerifyFinish([NoLongfellow EXCEPT !.error = "Longfellow returned 500"])

\* the connection to Longfellow is refused (error.code === 'ECONNREFUSED')
LongfellowRefused ==
  /\ vpc = "awaiting"
  /\ VerifyFinish(MockLongfellowResponse)

\* the fetch fails in another way
LongfellowUnreachable ==
  /\ vpc = "awaiting"
  /\ VerifyFinish([NoLongfellow EXCEPT !.error = "Failed to reach Longfellow"])

\* verifyPresentation has returned; the next call may start
VerifyReturn ==
  /\ vpc = "done"
  /\ vpc' = "idle"
  /\ UNCHANGED <<now, issVars, sdVars, trustVars, vCalls, vUuids, vEnvelope, vFetches, vRequest,
                 vLongfellow, vResult, vSessionIds, stVars>>

\* the decrypted envelopes
Envelopes ==
  {NoEnvelope} \cup
  [decrypts : {TRUE}, vp_token : {"", "{mdl}", "vp-token"}, nonce : {"", "n1"},
   aud : {"", "https://rp.example"}]

\* the values a remote predicate can have, by name
RemoteValues(key) ==
  CASE key = AgeOver21 -> {JTrue, JFalse, JNum("34")}
    [] key = NotExpired -> {JTrue, JFalse, JStr("2030-01-01")}
    [] key = "birthDate" -> {JTrue, JStr("1990-01-01")}
    [] key = "issuerJurisdiction" -> {JTrue, JStr("Jane Doe")}
    [] key = "notExpired" -> {JFalse}

RemoteKeys == {AgeOver21, NotExpired, "birthDate", "issuerJurisdiction", "notExpired"}

RemotePredicates ==
  UNION { {f \in [ks -> UNION {RemoteValues(k) : k \in ks}] : \A k \in ks : f[k] \in RemoteValues(k)}
          : ks \in SUBSET RemoteKeys }

\* the JSON bodies Longfellow can answer with
LongfellowResults ==
  [valid : BOOLEAN, predicates : RemotePredicates, issuer : {"", "CA-DMV", "TX-DPS"},
   error : {""}, mock : {FALSE}]

-----------------------------------------------------------------------------
(* Building and validating session transcripts                             *)
(* (src/verifier/sessionTranscript.js).  A JavaScript array is kept as a   *)
(* record with its items.                                                  *)

JArray(items) == [t |-> "array", items |-> items]
JString(text) == [t |-> "string", of |-> text]
JUndefinedValue == [t |-> "undefined"]

\* validateSessionTranscript(sessionTranscript)
ValidateSessionTranscript(sessionTranscript) ==
  IF sessionTranscript.t # "array" THEN FALSE
  ELSE IF Len(sessionTranscript.items) # 3 THEN FALSE
  ELSE IF sessionTranscript.items[3].t # "array" THEN FALSE
  ELSE TRUE

\* the ways a built transcript is altered
Corruptions ==
  {"shorter", "longer", "tag", "first", "second", "both", "handover", "no-array"}

\* the transcript altered in the given way
Corrupt(st, how) ==
  LET items == st.items
      handover == items[3]
  IN  CASE how = "shorter" -> JArray(SubSeq(items, 1, 2))
        [] how = "longer" -> JArray(Append(items, JNull))
        [] how = "tag" ->
             JArray([items EXCEPT ![3] =
                       JArray([handover.items EXCEPT ![1] = JString("OpenID4VPHandover")])])
        [] how = "first" -> JArray([items EXCEPT ![1] = JString("engagement")])
        [] how = "second" -> JArray([items EXCEPT ![2] = JString("reader-key")])
        [] how = "both" -> JArray([items EXCEPT ![1] = JString("engagement"),
                                               ![2] = JString("reader-key")])
        [] how = "handover" -> JArray([items EXCEPT ![3] = JString("OpenID4VPDCAPIHandover")])
        [] how = "no-array" -> JString("transcript")

\* what a caller passes as third argument: nothing, a response URI, or an
\* envelope with or without a response_uri
ThirdArguments ==
  { [kind |-> "omitted", response_uri |-> ""],
    [kind |-> "responseUri", response_uri |-> "https://rp.example/cb"],
    [kind |-> "envelope", response_uri |-> "https://rp.example/cb"],
    [kind |-> "envelope", response_uri |-> ""] }

NoArgs == [nonce |-> "", audience |-> "", third |-> [kind |-> "omitted", response_uri |-> ""]]

\* buildSessionTranscript(nonce, audience, third) is called
StBuild(nonce, audience, third) ==
  /\ stValue' = JArray(BuildSessionTranscript(nonce, audience, third))
  /\ stArgs' = [nonce |-> nonce, audience |-> audience, third |-> third]
  /\ stKind' = "built"
  /\ stChecked' = FALSE
  /\ stValid' = FALSE
  /\ UNCHANGED <<now, issVars, sdVars, trustVars, vpc, vCalls, vUuids, vEnvelope, vFetches,
                 vRequest, vLongfellow, vResult, vSessionIds>>

\* the transcript is altered on its way
StCorrupt(how) ==
  /\ stKind = "built"
  /\ stValue' = Corrupt(stValue, how)
  /\ stKind' = how
  /\ stChecked' = FALSE
  /\ stValid' = FALSE
  /\ UNCHANGED <<now, issVars, sdVars, trustVars, vpc, vCalls, vUuids, vEnvelope, vFetches,
                 vRequest, vLongfellow, vResult, vSessionIds, stArgs>>

\* validateSessionTranscript is called on the value
StValidate ==
  /\ stKind # "none"
  /\ ~stChecked
  /\ stChecked' = TRUE
  /\ stValid' = ValidateSessionTranscript(stValue)
  /\ UNCHANGED <<now, issVars, sdVars, trustVars, vpc, vCalls, vUuids, vEnvelope, vFetches,
                 vRequest, vLongfellow, vResult, vSessionIds, stValue, stKind, stArgs>>

Nonces == {"", "n1", "n2"}
Audiences == {"", "https://rp.example", "https://verifier.example.com"}

StNext ==
  \/ \E n \in Nonces, a \in Audiences, third \in ThirdArguments : StBuild(n, a, third)
  \/ \E how \in Corruptions : StCorrupt(how)
  \/ StValidate

VerNext ==
  \/ \E e \in Envelopes : VerifyStart(e)
  \/ \E r \in LongfellowResults : LongfellowAnswers(r)
  \/ LongfellowRejects
  \/ LongfellowRefused
  \/ LongfellowUnreachable
  \/ VerifyReturn

-----------------------------------------------------------------------------
(* The trust module: vicalFetcher (src/unnamed/part_004) and issuerPinning  *)
(* (src/issuer/keys.js, lines 65-201).  Issuer labels and jurisdiction     *)
(* codes are sequences of characters.                                      *)

TrustCallers == {"a", "b"}

\* the caller of the runs in which calls do not overlap
SerialCallers == {"a"}

CA == <<"C", "A">>
NY == <<"N", "Y">>
FL == <<"F", "L">>
TX == <<"T", "X">>

\* ['CA', 'NY', 'FL']
DefaultAccepted == <<CA, NY, FL>>

\* String.prototype.split(',') of a non-empty string
RECURSIVE SplitComma(_)
SplitComma(str) ==
  IF \A i \in 1..Len(str) : str[i] # ","
  THEN <<str>>
  ELSE LET k == CHOOSE i \in 1..Len(str) : str[i] = "," /\ \A j \in 1..(i-1) : str[j] # ","
       IN  <<SubSeq(str, 1, k - 1)>> \o SplitComma(SubSeq(str, k + 1, Len(str)))

\* ACCEPTED_JURISDICTIONS as the module computes it from the environment
\* variable (unset or empty: the default list)
AcceptedJurisdictionsOf(env) ==
  IF env = <<>> THEN DefaultAccepted ELSE SplitComma(env)

\* values of the environment variable ACCEPTED_JURISDICTIONS: unset,
\* "CA,NY,FL,TX", "ca,ny", "Ca,tx"
AcceptedJurisdictionsEnvs ==
  { <<>>,
    <<"C", "A", ",", "N", "Y", ",", "F", "L", ",", "T", "X">>,
    <<"c", "a", ",", "n", "y">>,
    <<"C", "a", ",", "t", "x">> }

UpperChar(c) ==
  CASE c = "c" -> "C" [] c = "a" -> "A" [] c = "n" -> "N" [] c = "y" -> "Y"
    [] c = "t" -> "T" [] c = "x" -> "X" [] c = "f" -> "F" [] c = "l" -> "L"
    [] c = "d" -> "D" [] OTHER -> c

\* String.prototype.toUpperCase
ToUpperCase(str) == [i \in 1..Len(str) |-> UpperChar(str[i])]

\* issuerCode.split('-')[0]
RECURSIVE SplitDashFirst(_)
SplitDashFirst(str) ==
  IF Len(str) = 0 \/ str[1] = "-" THEN <<>>
  ELSE <<str[1]>> \o SplitDashFirst(Tail(str))

\* Array.prototype.includes / indexOf (0 when absent)
Includes(list, x) == \E i \in 1..Len(list) : list[i] = x
IndexOf(list, x) ==
  IF Includes(list, x) THEN CHOOSE i \in 1..Len(list) : list[i] = x /\ \A j \in 1..(i-1) : list[j] # x
  ELSE 0

\* isJurisdictionAccepted(jurisdictionCode)
IsJurisdictionAccepted(jurisdictionCode) == Includes(accepted, ToUpperCase(jurisdictionCode))

NoQuery == [asked |-> FALSE, code |-> <<>>, result |-> FALSE]

Cert(kid, from, until) == [kid |-> kid, validFrom |-> from, validUntil |-> until]
NoCert == Cert("", 0, 0)

\* the lists the VICAL endpoint can serve
ListA == [isNull |-> FALSE, version |-> "A",
          jurisdictions |-> << [code |-> CA, certificates |-> << Cert("ca-1", 0, CACHE_TTL) >>],
                               [code |-> TX, certificates |-> << Cert("tx-1", 0, 2 * CACHE_TTL) >>] >>]
ListB == [isNull |-> FALSE, version |-> "B",
          jurisdictions |-> << [code |-> CA,
                                certificates |-> << Cert("ca-1", 0, CACHE_TTL),
                                                    Cert("ca-2", CACHE_TTL, 2 * CACHE_TTL) >>] >>]
\* the JSON text null
JsonNull == [isNull |-> TRUE, version |-> "", jurisdictions |-> <<>>]

\* getMockVicalData(): its certificates are valid from 2024-01-01 to 2025-12-31,
\* here a window of the model's clock
GetMockVicalData ==
  [isNull |-> FALSE, version |-> "1.0",
   jurisdictions |->
     << [code |-> CA, certificates |-> << Cert("ca-dmv-2024-01", CACHE_TTL \div 2, CACHE_TTL) >>],
        [code |-> NY, certificates |-> << Cert("ny-dmv-2024-01", CACHE_TTL \div 2, CACHE_TTL) >>],
        [code |-> FL, certificates |-> << Cert("fl-dmv-2024-01", CACHE_TTL \div 2, CACHE_TTL) >>] >>]

\* loadFromCache() returns null: no cache file
NoCache == [jurisdictions |-> <<>>, timestamp |-> -1, version |-> ""]

NoTrustCall == [op |-> "", issuerCode |-> <<>>, kid |-> ""]
NoTrustRet == [threw |-> FALSE, error |-> "", data |-> NoCache, stale |-> FALSE,
               accepted |-> FALSE, reason |-> "", certificate |-> NoCert]

\* (mutant) a cache is expired from the age of 24 hours on
IsCacheExpired_AtTtl(timestamp) == now - timestamp >= CACHE_TTL

\* isCacheExpired(timestamp)
IsCacheExpired(timestamp) == now - timestamp > CACHE_TTL

\* fetchVicalData(): the JSON body, or the mock data when the endpoint fails
FetchVicalData(outcome) ==
  IF outcome.kind = "json" THEN outcome.body ELSE GetMockVicalData

\* what fetchVical returns: the object read from the cache or the one just built;
\* neither has a field telling stale from fresh
Returned(data) == [NoTrustRet EXCEPT !.data = data]
Threw(msg) == [NoTrustRet EXCEPT !.threw = TRUE, !.error = msg]
Rejected(reason) == [NoTrustRet EXCEPT !.reason = reason]

\* verifyIssuer, were the certificate no longer valid at the instant validUntil
VerifyIssuerWith_ExclusiveUntil(call, fetched) ==
  LET jurisdictionCode == ToUpperCase(SplitDashFirst(call.issuerCode))
      js == fetched.data.jurisdictions
      found == {i \in 1..Len(js) : js[i].code = ToUpperCase(jurisdictionCode)}
  IN  IF fetched.threw THEN Rejected("Error verifying issuer")
      ELSE IF found = {} THEN Rejected("Error verifying issuer")
      ELSE LET certificates == js[CHOOSE i \in found : \A j \in found : i <= j].certificates
               hits == {i \in 1..Len(certificates) : certificates[i].kid = call.kid}
           IN  IF hits = {} THEN Rejected("Key ID not found in trusted certificates")
               ELSE LET cert == certificates[CHOOSE i \in hits : \A j \in hits : i <= j]
                    IN  IF now < cert.validFrom \/ now >= cert.validUntil
                        THEN Rejected("Certificate is not currently valid")
                        ELSE [NoTrustRet EXCEPT !.accepted = TRUE, !.certificate = cert]

\* the part of verifyIssuer after getIssuerCertificates' fetchVical has returned
VerifyIssuerWith(call, fetched) ==
  LET jurisdictionCode == ToUpperCase(SplitDashFirst(call.issuerCode))
      js == fetched.data.jurisdictions
      found == {i \in 1..Len(js) : js[i].code = ToUpperCase(jurisdictionCode)}
  IN  IF fetched.threw THEN Rejected("Error verifying issuer")
      ELSE IF found = {} THEN Rejected("Error verifying issuer")
      ELSE LET certificates == js[CHOOSE i \in found : \A j \in found : i <= j].certificates
               hits == {i \in 1..Len(certificates) : certificates[i].kid = call.kid}
           IN  IF hits = {} THEN Rejected("Key ID not found in trusted certificates")
               ELSE LET cert == certificates[CHOOSE i \in hits : \A j \in hits : i <= j]
                    IN  IF now < cert.validFrom \/ now > cert.validUntil
                        THEN Rejected("Certificate is not currently valid")
                        ELSE [NoTrustRet EXCEPT !.accepted = TRUE, !.certificate = cert]

\* what the caller's call returns once its fetchVical has returned
Continue(call, fetched) ==
  IF call.op = "verifyIssuer" THEN VerifyIssuerWith(call, fetched) ELSE fetched

\* a caller calls fetchVical, refreshVicalCache or verifyIssuer
TrustCall(p, call) ==
  /\ tpc[p] = "idle"
  /\ tCall' = [tCall EXCEPT ![p] = call]
  /\ tAccepted' = [tAccepted EXCEPT ![p] = IF call.op = "verifyIssuer" THEN accepted ELSE <<>>]
  /\ tBefore' = [tBefore EXCEPT ![p] = cacheFile]
  /\ IF call.op = "verifyIssuer"
        /\ ~IsJurisdictionAccepted(ToUpperCase(SplitDashFirst(call.issuerCode)))
     THEN /\ tRet' = [tRet EXCEPT ![p] = Rejected("Jurisdiction not in accepted list")]
          /\ tpc' = [tpc EXCEPT ![p] = "done"]
          /\ UNCHANGED cacheFile
     ELSE /\ cacheFile' = IF call.op = "refreshVicalCache" THEN NoCache ELSE cacheFile
          /\ tpc' = [tpc EXCEPT ![p] = "fetch"]
          /\ UNCHANGED tRet
  /\ UNCHANGED <<now, issVars, sdVars, verVars, accepted, tCached, tRemote, alQuery>>

\* fetchVical up to its return of fresh cached data or to the fetch of the endpoint
FetchBegin(p) ==
  /\ tpc[p] = "fetch"
  /\ tCached' = [tCached EXCEPT ![p] = cacheFile]
  /\ IF cacheFile # NoCache /\ ~IsCacheExpired(cacheFile.timestamp)
     THEN /\ tRet' = [tRet EXCEPT ![p] = Continue(tCall[p], Returned(cacheFile))]
          /\ tpc' = [tpc EXCEPT ![p] = "done"]
     ELSE /\ tpc' = [tpc EXCEPT ![p] = "remote"]
          /\ UNCHANGED tRet
  /\ UNCHANGED <<now, issVars, sdVars, verVars, cacheFile, accepted, tCall, tRemote, tAccepted, alQuery, tBefore>>

\* the rest of fetchVical once the VICAL endpoint has answered or failed
FetchEnd(p, outcome) ==
  /\ tpc[p] = "remote"
  /\ tRemote' = [tRemote EXCEPT ![p] = outcome.kind]
  /\ LET response == FetchVicalData(outcome)
         vicalData == [jurisdictions |-> response.jurisdictions, timestamp |-> now,
                       version |-> response.version]
     IN  IF response.isNull
         THEN /\ tRet' = [tRet EXCEPT ![p] =
                    Continue(tCall[p],
                             IF cacheFile # NoCache THEN Returned(cacheFile)
                             ELSE Threw("VICAL fetch failed and no cache available"))]
              /\ UNCHANGED cacheFile
         ELSE /\ cacheFile' = vicalData
              /\ tRet' = [tRet EXCEPT ![p] = Continue(tCall[p], Returned(vicalData))]
  /\ tpc' = [tpc EXCEPT ![p] = "done"]
  /\ UNCHANGED <<now, issVars, sdVars, verVars, accepted, tCall, tCached, tAccepted, alQuery, tBefore>>

\* the call has returned; the caller may call again
TrustReturn(p) ==
  /\ tpc[p] = "done"
  /\ tpc' = [tpc EXCEPT ![p] = "idle"]
  /\ tCall' = [tCall EXCEPT ![p] = NoTrustCall]
  /\ tCached' = [tCached EXCEPT ![p] = NoCache]
  /\ tRemote' = [tRemote EXCEPT ![p] = ""]
  /\ tRet' = [tRet EXCEPT ![p] = NoTrustRet]
  /\ tAccepted' = [tAccepted EXCEPT ![p] = <<>>]
  /\ tBefore' = [tBefore EXCEPT ![p] = NoCache]
  /\ UNCHANGED <<now, issVars, sdVars, verVars, cacheFile, accepted, alQuery>>

\* (mutant) addAcceptedJurisdiction storing the code as given
AddAcceptedJurisdiction_AsGiven(jurisdictionCode) ==
  /\ LET code == jurisdictionCode
     IN  accepted' = IF ~Includes(accepted, code) THEN Append(accepted, code) ELSE accepted
  /\ UNCHANGED <<now, issVars, sdVars, verVars, cacheFile, tpc, tCall, tCached, tRemote, tRet, tAccepted, alQuery, tBefore>>

\* addAcceptedJurisdiction(jurisdictionCode)
AddAcceptedJurisdiction(jurisdictionCode) ==
  /\ LET code == ToUpperCase(jurisdictionCode)
     IN  accepted' = IF ~Includes(accepted, code) THEN Append(accepted, code) ELSE accepted
  /\ UNCHANGED <<now, issVars, sdVars, verVars, cacheFile, tpc, tCall, tCached, tRemote, tRet, tAccepted, alQuery, tBefore>>

\* removeAcceptedJurisdiction(jurisdictionCode)
RemoveAcceptedJurisdiction(jurisdictionCode) ==
  /\ LET code == ToUpperCase(jurisdictionCode)
         index == IndexOf(accepted, code)
     IN  accepted' = IF index > 0
                     THEN SubSeq(accepted, 1, index - 1) \o SubSeq(accepted, index + 1, Len(accepted))
                     ELSE accepted
  /\ UNCHANGED <<now, issVars, sdVars, verVars, cacheFile, tpc, tCall, tCached, tRemote, tRet, tAccepted, alQuery, tBefore>>

\* a caller asks isJurisdictionAccepted(jurisdictionCode)
IsAccepted(jurisdictionCode) ==
  /\ alQuery' = [asked |-> TRUE, code |-> jurisdictionCode,
                 result |-> IsJurisdictionAccepted(jurisdictionCode)]
  /\ UNCHANGED <<now, issVars, sdVars, verVars, cacheFile, accepted, tpc, tCall, tCached,
                 tRemote, tRet, tAccepted, tBefore>>

\* the codes callers ask about and add or remove
JurisdictionCodes ==
  { CA, <<"c", "a">>, <<"C", "a">>, TX, <<"t", "x">>, NY, <<"n", "y">>, <<"C">>,
    <<"C", "A", "L">> }

\* the codes given to addAcceptedJurisdiction and removeAcceptedJurisdiction
ChangedCodes == { <<"t", "x">>, TX, CA, <<"c", "a">>, NY }

AllowListNext ==
  \/ \E j \in JurisdictionCodes : IsAccepted(j)
  \/ \E j \in ChangedCodes : AddAcceptedJurisdiction(j)
  \/ \E j \in ChangedCodes : RemoveAcceptedJurisdiction(j)

\* time passes
TrustTick ==
  /\ now < MaxTrustTicks * (CACHE_TTL \div 2)
  /\ now' = now + CACHE_TTL \div 2
  /\ UNCHANGED <<issVars, sdVars, verVars, trustVars>>

IssuerCodes == { <<"C", "A", "-", "D">>, <<"c", "a", "-", "d">>, <<"T", "X", "-", "D">>,
                 <<"N", "Y", "-", "D">> }
Kids == {"ca-1", "ca-2", "tx-1", "ca-dmv-2024-01"}

TrustCalls ==
  { [op |-> "fetchVical", issuerCode |-> <<>>, kid |-> ""],
    [op |-> "refreshVicalCache", issuerCode |-> <<>>, kid |-> ""] }
  \cup [op : {"verifyIssuer"}, issuerCode : IssuerCodes, kid : Kids]

\* how the VICAL endpoint can answer
VicalOutcomes ==
  { [kind |-> "json", body |-> ListA], [kind |-> "json", body |-> ListB],
    [kind |-> "json", body |-> JsonNull],
    [kind |-> "http-error", body |-> JsonNull],
    [kind |-> "network-error", body |-> JsonNull] }

TrustNext ==
  \/ \E p \in SerialCallers, c \in TrustCalls : TrustCall(p, c)
  \/ \E p \in SerialCallers : FetchBegin(p)
  \/ \E p \in SerialCallers, o \in VicalOutcomes : FetchEnd(p, o)
  \/ \E p \in SerialCallers : TrustReturn(p)
  \/ \E j \in {<<"t", "x">>, CA} : AddAcceptedJurisdiction(j)
  \/ \E j \in {<<"t", "x">>, CA} : RemoveAcceptedJurisdiction(j)
  \/ TrustTick

\* fetchVical and refreshVicalCache called by callers whose calls overlap
CacheCalls == {c \in TrustCalls : c.op \in {"fetchVical", "refreshVicalCache"}}

ConcurrentNext ==
  \/ \E p \in TrustCallers, c \in CacheCalls : TrustCall(p, c)
  \/ \E p \in TrustCallers : FetchBegin(p)
  \/ \E p \in TrustCallers, o \in VicalOutcomes : FetchEnd(p, o)
  \/ \E p \in TrustCallers : TrustReturn(p)
  \/ TrustTick

IssNext ==
  \/ \E b \in AuthorizeBodies : Authorize(b.verificationSessionId, b.holderPublicKey)
  \/ \E g \in GrantTypes, c \in Uuids : Token(g, c)
  \/ \E h \in Headers, b \in CredentialBodies : Credential(h, b.format, b.proof)
  \/ \E c \in Uuids : Expire(c)
  \/ IssTick

InitWith(env) ==
  /\ now = 0
  /\ sessions = <<>>
  /\ sessionObjs = <<>>
  /\ timers = {}
  /\ timersFired = {}
  /\ uuids = 0
  /\ origin = <<>>
  /\ issReq = NoReq
  /\ issRes = NoRes
  /\ sdPhase = "idle"
  /\ sdIssued = NoIssued
  /\ sdPresented = <<>>
  /\ sdCall = NoCall
  /\ sdResult = InvalidCredential("")
  /\ vpc = "idle"
  /\ vCalls = 0
  /\ vUuids = 0
  /\ vEnvelope = NoEnvelope
  /\ vFetches = 0
  /\ vRequest = NoRequest
  /\ vLongfellow = NoLongfellow
  /\ vResult = NoResult
  /\ vSessionIds = {}
  /\ stValue = JUndefinedValue
  /\ stKind = "none"
  /\ stChecked = FALSE
  /\ stValid = FALSE
  /\ stArgs = NoArgs
  /\ cacheFile = NoCache
  /\ accepted = AcceptedJurisdictionsOf(env)
  /\ tpc = [p \in TrustCallers |-> "idle"]
  /\ tCall = [p \in TrustCallers |-> NoTrustCall]
  /\ tCached = [p \in TrustCallers |-> NoCache]
  /\ tRemote = [p \in TrustCallers |-> ""]
  /\ tRet = [p \in TrustCallers |-> NoTrustRet]
  /\ tAccepted = [p \in TrustCallers |-> <<>>]
  /\ alQuery = NoQuery
  /\ tBefore = [p \in TrustCallers |-> NoCache]

\* the program started without ACCEPTED_JURISDICTIONS in its environment
Init == InitWith(<<>>)

\* the program started with any of the values of ACCEPTED_JURISDICTIONS
InitConfigured == \E env \in AcceptedJurisdictionsEnvs : InitWith(env)

SpecIssuance == Init /\ [][IssNext]_vars

SpecSdJwt == Init /\ [][SdNext]_vars

SpecVerify == Init /\ [][VerNext]_vars

SpecTrust == Init /\ [][TrustNext]_vars

SpecTranscript == Init /\ [][StNext]_vars

SpecAllowList == InitConfigured /\ [][AllowListNext]_vars

SpecTrustConcurrent == Init /\ [][ConcurrentNext]_vars

\* verifyPresentation with the steps the verifier takes by itself always taken
\* in the end; when and whether Longfellow answers is up to Longfellow and the
\* network
SpecVerifyLive == Init /\ [][VerNext]_vars /\ WF_vars(VerifyReturn)

-----------------------------------------------------------------------------
(* Claims about the issuance session machine *)

AuthCodes == {k \in DOMAIN origin : origin[k].exchangedFor = NoId}
TokensFor(code) == {k \in DOMAIN origin : origin[k].exchangedFor = code}

\* C1: an authorization code is exchanged at most once: over any sequence of
\* /token calls with grant type authorization_code, at most one of the calls
\* carrying a given authorization code returns an access token (all later ones
\* fail with invalid_grant).
C1_CodeExchangedAtMostOnce ==
  \A code \in AuthCodes : Cardinality(TokensFor(code)) <= 1

\* C2: once the scheduled removal of a session has run, no key (neither the
\* authorization code nor an access token obtained from it) resolves to that
\* session any more, and a successful /token or /credential response is never
\* given for it.
C2_ExpiredSessionUnusable ==
  \A k \in DOMAIN sessions : sessions[k] \notin timersFired

\* C4: session isolation: the credential returned by /credential for a bearer
\* token carries, as cnf.jwk and as derivedFrom.sessionId, the holderPublicKey and
\* the verificationSessionId given to the /authorize call that token stems from.
C4_SessionIsolation ==
  (issReq.op = "credential" /\ issRes.status = 200) =>
     LET payload == issRes.credential[1].payload
         from == origin[issReq.authorization.token]
     IN  /\ payload.cnf = from.holderPublicKey
         /\ payload.derivedFrom = from.verificationSessionId

\* a credential was issued for an access token while the session of another
\* holder was registered
C4_Witness ==
  /\ issReq.op = "credential" /\ issRes.status = 200
  /\ origin[issReq.authorization.token].exchangedFor # NoId
  /\ \E t \in DOMAIN origin :
        /\ t \in DOMAIN sessions
        /\ origin[t].holderPublicKey # origin[issReq.authorization.token].holderPublicKey

\* C11: a derived credential is issued only for a verificationSessionId that a
\* prior successful verifyPresentation call returned as sessionId.
C11_IssuedOnlyForVerifiedSession ==
  (issReq.op = "credential" /\ issRes.status = 200) =>
     issRes.credential[1].payload.derivedFrom \in {UuidText(n) : n \in vSessionIds}

\* a step in which /authorize, /token or /credential answers the request issReq'
AuthorizeStep ==
  /\ issReq'.op = "authorize"
  /\ Authorize(issReq'.verificationSessionId, issReq'.holderPublicKey)
TokenStep ==
  /\ issReq'.op = "token"
  /\ Token(issReq'.grant_type, issReq'.code)
CredentialStep ==
  /\ issReq'.op = "credential"
  /\ Credential(issReq'.authorization, issReq'.format, issReq'.proof)

\* the key resolves to a session whose scheduled removal has not run
Live(key) == key \in DOMAIN sessions /\ sessions[key] \notin timersFired

\* C13: /credential answers invalid_token and issues nothing whenever the
\* Authorization header is missing, is not a Bearer token, or carries a token
\* that does not resolve to a live, non-expired session.
C13_InvalidToken ==
  [][(CredentialStep
        /\ \/ issReq'.authorization = NoHeader
           \/ issReq'.authorization.scheme # "Bearer"
           \/ ~Live(issReq'.authorization.token)) =>
       /\ issRes'.status = 401
       /\ issRes'.error = "invalid_token"
       /\ issRes'.credential = <<>>]_vars

\* the value is an authorization code /authorize returned, and the scheduled
\* removal of its session has not run
LiveCode(code) == code \in AuthCodes /\ code \notin timersFired

\* C14: /token with grant type authorization_code answers invalid_grant when
\* the code is unknown or expired, creates no access token and leaves the
\* session table unchanged.
C14_InvalidGrant ==
  [][(TokenStep /\ issReq'.grant_type = "authorization_code" /\ ~LiveCode(issReq'.code)) =>
       /\ issRes'.status = 400
       /\ issRes'.error = "invalid_grant"
       /\ issRes'.access_token = NoId
       /\ sessions' = sessions
       /\ sessionObjs' = sessionObjs]_vars

\* C15: /token answers unsupported_grant_type whenever the grant type is not
\* authorization_code, whether or not the code is valid, and then hands out no
\* access token and leaves the session table, the sessions and the timers as
\* they were.
C15_UnsupportedGrant ==
  [][(TokenStep /\ issReq'.grant_type # "authorization_code") =>
       /\ issRes'.status = 400
       /\ issRes'.error = "unsupported_grant_type"
       /\ issRes'.access_token = NoId
       /\ UNCHANGED <<sessions, sessionObjs, timers, uuids>>]_vars

\* /token has refused another grant type for a live authorization code
C15_Witness ==
  /\ issReq.op = "token" /\ issReq.grant_type = "client_credentials"
  /\ LiveCode(issReq.code) /\ issReq.code \in DOMAIN sessions
  /\ issRes.error = "unsupported_grant_type"

\* C16: /authorize registers a session under a new authorization code, returns
\* the code and schedules its expiry when verificationSessionId and
\* holderPublicKey are both given; when either is missing it answers
\* invalid_request, registers no session and schedules no expiry.
C16_AuthorizeNeedsBoth ==
  [][AuthorizeStep =>
       IF issReq'.verificationSessionId # "" /\ issReq'.holderPublicKey # NoKey
       THEN /\ issRes'.status = 200
            /\ issRes'.authorization_code \notin DOMAIN sessions
            /\ issRes'.authorization_code \in DOMAIN sessions'
            /\ \E tm \in timers' \ timers :
                  tm.code = issRes'.authorization_code /\ tm.due = now + SESSION_TTL
       ELSE /\ issRes'.status = 400
            /\ issRes'.error = "invalid_request"
            /\ issRes'.authorization_code = NoId
            /\ UNCHANGED <<sessions, sessionObjs, timers>>]_vars

\* /authorize has refused a request that gave a verificationSessionId but no
\* holderPublicKey
C16_Witness ==
  /\ issReq.op = "authorize"
  /\ issReq.verificationSessionId # "" /\ issReq.holderPublicKey = NoKey
  /\ issRes.error = "invalid_request"
  /\ sessions = <<>> /\ timers = {}

\* C17: /credential with a live token answers unsupported_credential_format
\* for a format that is given and is not vc+sd-jwt, invalid_proof for a proof
\* that is given and whose type is not jwt, issuing nothing in either case; a
\* request without format or without proof is not refused for that.
C17_FormatAndProof ==
  [][(issReq'.authorization.scheme = "Bearer" /\ Live(issReq'.authorization.token)
        /\ CredentialStep) =>
       LET format == issReq'.format
           proof == issReq'.proof
       IN  /\ (format \notin {"", "vc+sd-jwt"}) =>
                 issRes'.error = "unsupported_credential_format" /\ issRes'.credential = <<>>
           /\ (format \in {"", "vc+sd-jwt"} /\ proof.present /\ proof.proof_type # "jwt") =>
                 issRes'.error = "invalid_proof" /\ issRes'.credential = <<>>
           /\ (format \in {"", "vc+sd-jwt"} /\ (~proof.present \/ proof.proof_type = "jwt")) =>
                 issRes'.status = 200 /\ issRes'.credential # <<>>]_vars

\* /credential has issued for a request that gave neither format nor proof
C17_Witness ==
  /\ issReq.op = "credential" /\ issReq.format = "" /\ ~issReq.proof.present
  /\ issRes.status = 200 /\ issRes.credential # <<>>

\* the disclosure segments of a credential string, decoded
DisclosuresOf(sdJwt) ==
  LET segments == Slice1Minus1(SplitTilde(sdJwt))
  IN  [i \in 1..Len(segments) |-> segments[i][1]]

\* C24: end-to-end issuance: the credential returned by /credential for an
\* access token obtained from /token for a code from /authorize, with format
\* vc+sd-jwt, is a string with exactly 2 disclosures, for the claims over21 and
\* notExpired, and an envelope with exp - iat equal to the derived-credential
\* TTL.
C24_EndToEndIssuance ==
  (issReq.op = "credential" /\ issReq.format = "vc+sd-jwt" /\ issRes.status = 200) =>
     LET disclosures == DisclosuresOf(issRes.credential)
         payload == issRes.credential[1].payload
     IN  /\ Len(disclosures) = 2
         /\ {disclosures[i].key : i \in 1..Len(disclosures)} = {"over21", "notExpired"}
         /\ \A i \in 1..Len(disclosures) : disclosures[i].value = JTrue
         /\ Len(payload.sd) = 2
         /\ payload.exp - payload.iat = DERIVED_VC_TTL

\* a credential was returned for an access token that /token gave for a code,
\* some time after the code was handed out
C24_Witness ==
  /\ issReq.op = "credential" /\ issReq.format = "vc+sd-jwt" /\ issRes.status = 200
  /\ origin[issReq.authorization.token].exchangedFor \in AuthCodes
  /\ issRes.credential[1].payload.iat > 0

\* the key resolves to a session whose deadline has passed while its
\* scheduled removal has not yet run
Overdue(key) ==
  /\ key \in DOMAIN sessions
  /\ \E tm \in timers : tm.code = sessions[key] /\ now > tm.due

\* C27: a lookup of a session whose 10-minute deadline has passed but whose
\* scheduled removal has not yet run behaves like a lookup of an unknown key:
\* /token answers invalid_grant and /credential answers invalid_token.
C27_OverdueSessionUnknown ==
  [][/\ (TokenStep /\ issReq'.grant_type = "authorization_code" /\ Overdue(issReq'.code)) =>
          (issRes'.status = 400 /\ issRes'.error = "invalid_grant" /\ issRes'.access_token = NoId)
     /\ (CredentialStep /\ issReq'.authorization # NoHeader
           /\ issReq'.authorization.scheme = "Bearer"
           /\ Overdue(issReq'.authorization.token)) =>
          (issRes'.status = 401 /\ issRes'.error = "invalid_token" /\ issRes'.credential = <<>>)
    ]_vars

\* C28: the issuance steps are ordered: /credential succeeds only with a
\* value that a successful /token call returned as access token; an
\* authorization code that has not been exchanged, or any value /token never
\* returned, presented as the Bearer token never yields a credential.
C28_CredentialNeedsToken ==
  (issReq.op = "credential" /\ issRes.status = 200) =>
     /\ issReq.authorization.token \in DOMAIN origin
     /\ origin[issReq.authorization.token].exchangedFor # NoId

\* C29: after a successful /token call, the returned access token and the
\* session's authorization code are lookup keys of the same session record
\* (same holderPublicKey and verificationSessionId), and that record's
\* accessToken field equals the returned token.
C29_TokenAndCodeShareSession ==
  [][(TokenStep /\ issRes'.status = 200) =>
       LET accessToken == issRes'.access_token
           record == sessionObjs'[sessions'[accessToken]]
           authCode == record.authCode
       IN  /\ accessToken \in DOMAIN sessions'
           /\ authCode \in DOMAIN sessions'
           /\ sessions'[authCode] = sessions'[accessToken]
           /\ record.accessToken = accessToken
           /\ record.holderPublicKey = origin[authCode].holderPublicKey
           /\ record.verificationSessionId = origin[authCode].verificationSessionId
    ]_vars

\* C30: /credential only reads the session: a call, successful or rejected,
\* adds no key to the session table, removes none, and changes no field of
\* any session record.
C30_CredentialReadsOnly ==
  [][CredentialStep => (sessions' = sessions /\ sessionObjs' = sessionObjs)]_vars

\* a successful /credential call for an access token while the table holds
\* at least two keys
C30_Witness ==
  /\ issReq.op = "credential" /\ issRes.status = 200
  /\ origin[issReq.authorization.token].exchangedFor # NoId
  /\ Cardinality(DOMAIN sessions) >= 2

-----------------------------------------------------------------------------
(* Claims about the SD-JWT functions *)

\* verifyCredential was called with the issuer's key before the envelope's exp
VerifiedInTime ==
  /\ sdPhase = "verified"
  /\ sdCall.issuerPublicKey = IssuerKey
  /\ sdCall.at < sdIssued.sdJwt[1].payload.exp

\* the disclosures of the issued credential the presented string retains
Retained ==
  {i \in 1..Len(sdIssued.disclosures) :
     \E j \in 1..Len(sdCall.sdJwt) : sdCall.sdJwt[j] = sdIssued.disclosures[i]}

\* the presented string holds a disclosure that was not issued with the
\* envelope
PresentedForeign ==
  \E j \in 1..Len(sdCall.sdJwt) : sdCall.sdJwt[j] \in ForeignDisclosures

\* C5: disclosure round trip: for any claim set C, the empty one included,
\* verifying the credential string issued for C, as issued, with the issuer's
\* public key yields valid = true and exactly the claims of C.
C5_RoundTrip ==
  (VerifiedInTime /\ sdCall.sdJwt = sdIssued.sdJwt) =>
     /\ sdResult.valid
     /\ Entries(sdResult.claims) = Entries(sdIssued.claims)

\* C6: selective disclosure: when the holder removes some disclosure segments
\* of an issued credential string (keeping the envelope and the trailing
\* delimiter), verifyCredential returns valid = true and reveals exactly the
\* claims of the retained disclosures, a strict subset of the issued claims.
C6_SelectiveDisclosure ==
  (VerifiedInTime /\ sdCall.sdJwt # sdIssued.sdJwt /\ ~PresentedForeign) =>
     /\ sdResult.valid
     /\ Entries(sdResult.claims) = {sdIssued.claims[i] : i \in Retained}
     /\ Entries(sdResult.claims) \subseteq Entries(sdIssued.claims)
     /\ Entries(sdResult.claims) # Entries(sdIssued.claims)

\* one of two disclosures was left out and the other one's claim was revealed
C6_Witness ==
  /\ VerifiedInTime
  /\ Len(sdIssued.disclosures) = 2
  /\ Cardinality(Retained) = 1
  /\ Len(sdResult.claims) = 1

\* the envelope followed by "~" and each disclosure in turn
RECURSIVE EnvelopeThenDisclosures(_, _)
EnvelopeThenDisclosures(jwt, disclosures) ==
  IF Len(disclosures) = 0 THEN <<jwt>>
  ELSE EnvelopeThenDisclosures(jwt, SubSeq(disclosures, 1, Len(disclosures) - 1))
         \o <<Tilde, disclosures[Len(disclosures)]>>

\* C25: the credential string issueCredential returns is the signed envelope
\* followed by every encoded disclosure in generation order, the segments
\* separated by "~", with one trailing "~"; split on "~", its first segment
\* is the envelope, its last segment is empty, and the segments between are
\* the disclosures, which is how verifyCredential reads it.
C25_WireFormat ==
  (sdPhase # "idle") =>
     LET s == sdIssued.sdJwt
         parts == SplitTilde(s)
         between == Slice1Minus1(parts)
     IN  /\ s = EnvelopeThenDisclosures(s[1], sdIssued.disclosures) \o <<Tilde>>
         /\ parts[1] = <<s[1]>> /\ s[1].t = "jwt"
         /\ parts[Len(parts)] = <<>>
         /\ between = [i \in 1..Len(sdIssued.disclosures) |-> <<sdIssued.disclosures[i]>>]

\* the errors with which verifyCredential rejects a credential for its exp
ExpiryErrors == {"Credential expired", "\"exp\" claim timestamp check failed"}

\* C20: verifyCredential rejects a credential whose exp is earlier than the
\* current time as expired, with valid = false and no claims, and does not
\* reject for expiry a credential whose exp is the current time or later.
C20_ExpiryBoundary ==
  (sdPhase = "verified" /\ sdCall.issuerPublicKey = IssuerKey /\ sdIssued.claims # <<>>) =>
     LET exp == sdCall.sdJwt[1].payload.exp
     IN  /\ exp < sdCall.at =>
               /\ ~sdResult.valid
               /\ sdResult.error \in ExpiryErrors
               /\ sdResult.claims = <<>>
         /\ exp >= sdCall.at =>
               /\ sdResult.error \notin ExpiryErrors
               /\ sdResult.valid

\* C21: when the envelope's signature does not verify against the given
\* issuer public key, verifyCredential returns valid = false and reveals no
\* claims, and it fails on the signature before any disclosure is decoded (a
\* disclosure that cannot be decoded does not change the outcome).
C21_SignatureFatal ==
  (sdPhase = "verified" /\ sdCall.issuerPublicKey # IssuerKey) =>
     /\ ~sdResult.valid
     /\ sdResult.claims = <<>>
     /\ sdResult.error = "signature verification failed"

\* verifyCredential was called with another key on a credential string holding
\* a segment that cannot be decoded as a disclosure
C21_Witness ==
  /\ sdPhase = "verified" /\ sdCall.issuerPublicKey = OtherKey
  /\ \E i \in 1..Len(Slice1Minus1(SplitTilde(sdCall.sdJwt))) :
        ~CanDecodeDisclosure(Slice1Minus1(SplitTilde(sdCall.sdJwt))[i])
  /\ ~sdResult.valid

-----------------------------------------------------------------------------
(* Claims about verifyPresentation *)

C10_MockIsFlagged ==
  (vpc = "done" /\ vResult.valid /\ vLongfellow.mock) => vResult.mock

\* C18: when the decrypted envelope holds no vp_token, verifyPresentation
\* returns valid = false with the missing-presentation error, without
\* predicates or sessionId, and sends no request to the remote verifier.
C18_MissingPresentation ==
  (vpc = "done" /\ vEnvelope.decrypts /\ vEnvelope.vp_token = "") =>
     /\ ~vResult.valid
     /\ vResult.error = "No vp_token found in decrypted envelope"
     /\ vResult.predicates = <<>> /\ vResult.sessionId = NoId
     /\ vFetches = 0
     /\ vLongfellow = NoLongfellow

\* a call for an envelope without vp_token has returned, after an earlier call
\* that did reach the remote verifier
C18_Witness ==
  /\ vpc = "done" /\ vEnvelope.decrypts /\ vEnvelope.vp_token = ""
  /\ vCalls = 2 /\ vRequest # NoRequest
  /\ ~vResult.valid

\* the call to the remote verifier failed: no answer, or a non-2xx answer
RemoteFailed == vFetches = 1 /\ (vLongfellow.mock \/ vLongfellow.error # "")

\* C19: every failure in decryption, in reading the envelope or in the remote
\* call makes verifyPresentation return valid = false with an error and
\* neither predicates nor sessionId.
C19_FailuresReturnInvalid ==
  (vpc = "done" /\ (~vEnvelope.decrypts \/ VpTokenOf(vEnvelope) = "" \/ RemoteFailed)) =>
     /\ ~vResult.valid
     /\ vResult.error # ""
     /\ vResult.predicates = <<>> /\ vResult.sessionId = NoId

\* C22: for all nonce and audience inputs the transcript buildSessionTranscript
\* returns passes validateSessionTranscript, has exactly 3 top-level elements,
\* the first two null and the third a sequence.
C22_BuiltTranscriptValid ==
  (stKind = "built" /\ stChecked) =>
     /\ stValid
     /\ Len(stValue.items) = 3
     /\ stValue.items[1] = JNull /\ stValue.items[2] = JNull
     /\ stValue.items[3].t = "array"

\* a transcript built from a nonce and an audience has been validated
C22_Witness ==
  /\ stKind = "built" /\ stChecked /\ stValid
  /\ stValue.items[3].items[2] # JNull /\ stValue.items[3].items[3] # JNull

\* C23: validateSessionTranscript returns false for every corrupted
\* transcript: one whose length is not 3, one whose handover tag is not
\* "OpenID4VPDCAPIHandover", one whose first or second element is not null.
C23_CorruptedTranscriptInvalid ==
  (stKind \in {"shorter", "longer", "tag", "first", "second", "both"} /\ stChecked) => ~stValid

\* the characters of an issuer label of a Longfellow result
LabelChars(label) ==
  CASE label = "CA-DMV" -> <<"C", "A", "-", "D", "M", "V">>
    [] label = "TX-DPS" -> <<"T", "X", "-", "D", "P", "S">>
    [] OTHER -> <<>>

\* C12: verifyPresentation returns valid = true only for a presentation whose
\* issuer's jurisdiction is in the accepted-jurisdictions allow-list.
C12_ValidOnlyForAcceptedIssuer ==
  (vpc = "done" /\ vResult.valid) =>
     IsJurisdictionAccepted(SplitDashFirst(LabelChars(vLongfellow.issuer)))

-----------------------------------------------------------------------------
(* Trust module *)

VerifyIssuerReturns(p) ==
  tpc[p] # "done" /\ tpc'[p] = "done" /\ tCall'[p].op = "verifyIssuer"

\* the jurisdiction prefix of the label is in the allow-list the call read,
\* compared without regard to letter case
PrefixAllowed(p) ==
  \E i \in 1..Len(tAccepted'[p]) :
    ToUpperCase(tAccepted'[p][i]) = ToUpperCase(SplitDashFirst(tCall'[p].issuerCode))

\* kid matches a certificate of the label's jurisdiction in the trust cache and
\* the current time lies within that certificate's validity, bounds included
KidValidInCache(p) ==
  \E i \in 1..Len(cacheFile'.jurisdictions) :
    /\ ToUpperCase(cacheFile'.jurisdictions[i].code) = ToUpperCase(SplitDashFirst(tCall'[p].issuerCode))
    /\ \E j \in 1..Len(cacheFile'.jurisdictions[i].certificates) :
         LET c == cacheFile'.jurisdictions[i].certificates[j]
         IN  c.kid = tCall'[p].kid /\ c.validFrom <= now' /\ now' <= c.validUntil

FetchFailed(p) ==
  /\ tpc[p] = "done" /\ tCall[p].op = "fetchVical"
  /\ tRemote[p] \in {"http-error", "network-error"}

\* C8: when the trust cache is stale and the remote refresh fails, fetch returns
\* the stale cache content unchanged and tagged stale, and the cache still
\* holds that content.
C8_StaleCacheKept ==
  \A p \in TrustCallers :
    (FetchFailed(p) /\ tCached[p] # NoCache /\ IsCacheExpired(tCached[p].timestamp)) =>
      /\ ~tRet[p].threw
      /\ tRet[p].data = tCached[p]
      /\ tRet[p].stale
      /\ cacheFile = tCached[p]

\* C9: when no trust cache exists and the remote fetch fails, fetch fails and
\* returns no trust records.
C9_NoCacheNoRecords ==
  \A p \in TrustCallers :
    (FetchFailed(p) /\ tCached[p] = NoCache) =>
      /\ tRet[p].threw
      /\ tRet[p].data = NoCache

\* a call of isJurisdictionAccepted returns
IsAcceptedStep == alQuery' # alQuery

\* the code matches an entry of the list when letter case is ignored
MatchesEntry(list, code) ==
  \E i \in 1..Len(list) : ToUpperCase(list[i]) = ToUpperCase(code)

\* C26: for every configured allow-list (the default, or one given in the
\* configuration in any letter case), isAccepted returns true exactly when
\* the jurisdiction code equals an entry of the list as a whole code, letter
\* case ignored.
C26_AllowListCaseInsensitive ==
  [][IsAcceptedStep => (alQuery'.result <=> MatchesEntry(accepted, alQuery'.code))]_vars

-----------------------------------------------------------------------------
(* Claims about fetchVical and the trust cache *)

\* the bodies with which the VICAL endpoint answers a refresh successfully
FetchedLists == {o \in VicalOutcomes : o.kind = "json" /\ ~o.body.isNull}

\* C31: fetch returns the cached trust data without attempting a remote
\* refresh when now - fetchedAt <= 24h, and attempts a remote refresh when
\* the cache is missing or now - fetchedAt > 24h; after a successful refresh
\* the cache holds the fetched records with fetchedAt = now.
C31_FreshCacheNoRefresh ==
  [][\A p \in TrustCallers :
       /\ (FetchBegin(p) /\ cacheFile # NoCache /\ now - cacheFile.timestamp <= CACHE_TTL) =>
             /\ tpc'[p] = "done" /\ tRemote'[p] = ""
             /\ cacheFile' = cacheFile
             /\ tCall[p].op = "fetchVical" => (~tRet'[p].threw /\ tRet'[p].data = cacheFile)
       /\ (FetchBegin(p) /\ (cacheFile = NoCache \/ now - cacheFile.timestamp > CACHE_TTL)) =>
             tpc'[p] = "remote"
       /\ \A o \in FetchedLists :
            FetchEnd(p, o) =>
              /\ cacheFile'.jurisdictions = o.body.jurisdictions
              /\ cacheFile'.timestamp = now
              /\ tCall[p].op # "verifyIssuer" => tRet'[p].data = cacheFile'
    ]_vars

\* fetchVical has returned a cache that is exactly 24 hours old, without
\* asking the VICAL endpoint
C31_Witness ==
  \E p \in TrustCallers :
    /\ tpc[p] = "done" /\ tCall[p].op = "fetchVical" /\ tRemote[p] = ""
    /\ tRet[p].data = cacheFile /\ cacheFile # NoCache
    /\ now - cacheFile.timestamp = CACHE_TTL

\* caller q is inside refreshVicalCache, which began while a cache file no
\* older than CACHE_TTL existed
RefreshingValidCache(q) ==
  /\ tCall[q].op = "refreshVicalCache" /\ tpc[q] \in {"fetch", "remote"}
  /\ tBefore[q] # NoCache /\ ~IsCacheExpired(tBefore[q].timestamp)

\* the record sets the VICAL endpoint serves to a refresh
ServedRecordSets == {o.body.jurisdictions : o \in FetchedLists}

\* C32: concurrent fetch and explicit-refresh operations on the trust cache
\* are serialized or atomic: under any interleaving, every fetch returns a
\* complete record set that was previously cached or fetched by one refresh,
\* and a reader never finds the cache missing while a refresh is under way
\* that began with a valid cache.
C32_CacheOperationsAtomic ==
  [][\A p \in TrustCallers :
       /\ (FetchBegin(p) /\ tCall[p].op = "fetchVical"
             /\ \E q \in TrustCallers \ {p} : RefreshingValidCache(q)) =>
            /\ tCached'[p] # NoCache
            /\ tpc'[p] = "done" /\ tRet'[p].data \in {tBefore[q] : q \in TrustCallers \ {p}}
       /\ (tpc[p] # "done" /\ tpc'[p] = "done" /\ tCall[p].op = "fetchVical"
             /\ \E q \in TrustCallers \ {p} : RefreshingValidCache(q)) =>
            /\ ~tRet'[p].threw
            /\ tRet'[p].data.jurisdictions \in
                 ServedRecordSets \cup {tBefore[q].jurisdictions : q \in TrustCallers \ {p}}
    ]_vars

-----------------------------------------------------------------------------
(* Claims about verifyPresentation's remote call *)

\* C33: each verifyPresentation call makes at most one request to Longfellow,
\* and the request has a bounded timeout, so that the call returns a result
\* in the end even if Longfellow never responds.
C33_VerifyEventuallyReturns ==
  /\ [](vFetches <= 1)
  /\ (vpc = "awaiting") ~> (vpc = "done")

\* C34: in every successful result of verifyPresentation, predicates.notExpired
\* is a boolean that is false only when the remote result's not_expired
\* predicate is explicitly false, and true in every other case (absent, true,
\* or any other value).
C34_NotExpiredDefaultsTrue ==
  (vpc = "done" /\ vResult.valid) =>
     LET remote == vLongfellow.predicates
     IN  /\ "notExpired" \in DOMAIN vResult.predicates
         /\ vResult.predicates["notExpired"] \in {JTrue, JFalse}
         /\ vResult.predicates["notExpired"] = JFalse <=>
              (NotExpired \in DOMAIN remote /\ remote[NotExpired] = JFalse)

\* a successful result whose remote result carried neither true nor false as
\* not_expired (a date text, or nothing while it set notExpired: false itself)
C34_Witness ==
  /\ vpc = "done" /\ vResult.valid
  /\ vResult.predicates["notExpired"] = JTrue
  /\ \/ NotExpired \in DOMAIN vLongfellow.predicates
          /\ vLongfellow.predicates[NotExpired].type = "string"
     \/ NotExpired \notin DOMAIN vLongfellow.predicates
          /\ "notExpired" \in DOMAIN vLongfellow.predicates

-----------------------------------------------------------------------------
(* Claims about unmatched disclosures and digests *)

\* the claims of the issued disclosures that the presented string retains
RetainedClaims == {sdIssued.claims[i] : i \in Retained}

\* C35: in verifyCredential, a presented disclosure whose digest is not in
\* the envelope's digest list is excluded from the revealed claims and is not
\* an error: the result stays valid = true and contains only the claims of
\* the disclosures whose digests are in the envelope.
C35_ForeignDisclosureExcluded ==
  (VerifiedInTime /\ PresentedForeign) =>
     /\ sdResult.valid
     /\ Entries(sdResult.claims) = RetainedClaims
     /\ \A f \in ForeignDisclosures : [k |-> f.key, v |-> f.value] \notin Entries(sdResult.claims)

\* a credential with a claim over21 was presented with a foreign disclosure
\* for over21, and the issued claim was revealed
C35_Witness ==
  /\ VerifiedInTime /\ PresentedForeign
  /\ sdResult.valid
  /\ \E i \in 1..Len(sdResult.claims) : sdResult.claims[i].k = "over21"
  /\ \E j \in 1..Len(sdCall.sdJwt) :
        sdCall.sdJwt[j] \in ForeignDisclosures /\ sdCall.sdJwt[j].key = "over21"

\* an envelope digest has no presented disclosure, or a presented disclosure
\* has no envelope digest
DigestMismatch ==
  \/ Retained # 1..Len(sdIssued.disclosures)
  \/ PresentedForeign

\* C36: validation of a derived credential fails (valid = false) when an
\* envelope digest has no corresponding presented disclosure or a presented
\* disclosure has no corresponding envelope digest; such a mismatch is never
\* silently dropped.
C36_MismatchFails ==
  (VerifiedInTime /\ DigestMismatch) => ~sdResult.valid

\* C36 as amended: when an envelope digest has no corresponding presented
\* disclosure or a presented disclosure has no corresponding envelope digest,
\* validation does not fail: the result is valid = true and reveals exactly
\* the claims of the presented disclosures whose digests are in the envelope.
C36_MismatchTolerated ==
  (VerifiedInTime /\ DigestMismatch) =>
     (sdResult.valid /\ sdResult.error = "" /\ Entries(sdResult.claims) = RetainedClaims)

\* both disclosures of a credential were left out and the result is valid
\* without claims
C36_Witness ==
  /\ VerifiedInTime
  /\ Len(sdIssued.disclosures) = 2 /\ Retained = {}
  /\ ~PresentedForeign
  /\ sdResult.valid /\ sdResult.claims = <<>>

-----------------------------------------------------------------------------
(* Claims about the digests of an issued credential *)

\* C37: every credential issueCredential produces has as many envelope
\* digests as disclosures, the i-th digest is the SHA-256 digest of the i-th
\* encoded disclosure (generation order), and each claim of the input appears
\* in exactly one disclosure.
C37_DigestsMatchDisclosures ==
  (sdPhase # "idle") =>
     LET sd == sdIssued.sdJwt[1].payload.sd
         disclosures == sdIssued.disclosures
     IN  /\ Len(sd) = Len(disclosures)
         /\ \A i \in 1..Len(disclosures) : sd[i] = Sha256(disclosures[i])
         /\ \A i \in 1..Len(sdIssued.claims) :
              Cardinality({j \in 1..Len(disclosures) :
                             /\ disclosures[j].key = sdIssued.claims[i].k
                             /\ disclosures[j].value = sdIssued.claims[i].v}) = 1
         /\ Len(disclosures) = Len(sdIssued.claims)

\* a credential was issued for two claims whose disclosures differ
C37_Witness ==
  /\ sdPhase = "issued"
  /\ Len(sdIssued.claims) = 2
  /\ sdIssued.disclosures[1] # sdIssued.disclosures[2]
  /\ sdIssued.sdJwt[1].payload.sd[2] = Sha256(sdIssued.disclosures[2])

-----------------------------------------------------------------------------
(* Claims about the handover of a built session transcript *)

\* C38: build(nonce, audience, responseUri) places hash(audience) and
\* hash(nonce) in the second and third positions of the handover and, when a
\* responseUri is supplied, hash(responseUri) in the fourth position; the
\* fourth position is absent (null) only when no responseUri is supplied.
C38_HandoverHashes ==
  (stKind = "built") =>
     LET handover == stValue.items[3].items
         responseUri == stArgs.third.response_uri
     IN  /\ handover[2] = HashValue(stArgs.audience)
         /\ handover[3] = HashValue(stArgs.nonce)
         /\ responseUri # "" => handover[4] = HashValue(responseUri)
         /\ handover[4] = JNull => responseUri = ""

-----------------------------------------------------------------------------
(* Claims about the outcome of the remote verification *)

\* C39: verifyPresentation returns valid = true, predicates and a sessionId
\* only when the result of Longfellow (or the mock result substituted for it)
\* has valid true; when that result has valid false or Longfellow answered
\* with a non-2xx status, it returns valid = false with an error and no
\* predicates or sessionId.
C39_SuccessOnlyIfRemoteValid ==
  (vpc = "done") =>
     /\ vResult.valid =>
          /\ vFetches = 1 /\ vLongfellow.valid
          /\ vResult.predicates = ExtractPredicates(vLongfellow)
          /\ vResult.sessionId # NoId
     /\ (vFetches = 1 /\ ~vLongfellow.valid) =>
          /\ ~vResult.valid /\ vResult.error # ""
          /\ vResult.predicates = <<>> /\ vResult.sessionId = NoId

\* Longfellow answered with a non-2xx status and verifyPresentation returned
\* the failure, after an earlier call had succeeded
C39_Witness ==
  /\ vpc = "done" /\ vFetches = 1
  /\ vLongfellow.error = "Longfellow returned 500"
  /\ ~vResult.valid /\ vResult.error = "Longfellow returned 500"
  /\ vSessionIds # {}

-----------------------------------------------------------------------------
(* Claims about changes of the allow-list *)

\* no entry occurs twice in the list
DuplicateFree(list) == \A i, j \in 1..Len(list) : i # j => list[i] # list[j]

\* the same code in another letter case
SameCode(a, b) == ToUpperCase(a) = ToUpperCase(b)

====
